---- MODULE Spec2Model ----
(***************************************************************************)
(* Model of src/src/main.rs: a winit application (App) that bootstraps a   *)
(* Vulkan context (VulkanApp::create) when the event loop delivers         *)
(* resumed and tears it down (VulkanApp::destroy) in exiting, plus the     *)
(* device-selection functions pick_physical_device, check_physical_device  *)
(* and QueueFamilyIndices::get.                                            *)
(*                                                                         *)
(* Native Vulkan calls are recorded in the trace `calls`; every handler is *)
(* one atomic action because the program is single threaded and a handler  *)
(* runs to completion (or to a panic) before the next one is delivered.    *)
(***************************************************************************)
EXTENDS Integers, Sequences, FiniteSets, TLC

VARIABLES
    VALIDATION_ENABLED,   \* build flag cfg!(debug_assertions)
    target_macos,         \* build flag cfg!(target_os = "macos")
    available_layers,     \* host: names returned by enumerate_instance_layer_properties
    entry_version,        \* host: result of Entry::version()
    window_extensions,    \* host: vk_window::get_required_instance_extensions(window)
    devices,              \* host: physical devices, handle i is devices[i]
    window,               \* App.window: None or the number of the window
    app,                  \* App.app: None or a VulkanApp
    loop,                 \* state of the winit event loop / process
    resumes,              \* number of resumed callbacks delivered
    calls,                \* trace of native Vulkan calls issued so far
    instance_requests,    \* InstanceCreateInfo of every create_instance call
    instance_result,      \* result of the last run of fn create_instance
    device_requests,      \* DeviceCreateInfo of every create_device call
    create_result,        \* result of the last run of VulkanApp::create
    redraw_pending,       \* Window::request_redraw was called and not yet served
    pick_in,              \* AppData handed to pick_physical_device
    pick_out,             \* outcome of pick_physical_device
    qfi_out,              \* outcome of QueueFamilyIndices::get
    check_out,            \* outcome of check_physical_device
    dev_out,              \* outcome of create_logical_decice
    debug_out             \* outcome of debug_callback

vars == <<VALIDATION_ENABLED, target_macos, available_layers, entry_version,
          window_extensions, devices, window, app, loop, resumes, calls,
          instance_requests, instance_result, device_requests, create_result,
          redraw_pending, pick_in, pick_out, qfi_out, check_out, dev_out,
          debug_out>>

hostVars == <<VALIDATION_ENABLED, target_macos, available_layers,
              entry_version, window_extensions, devices>>
appVars == <<window, app, loop, resumes, calls, instance_requests,
             instance_result, device_requests, create_result, redraw_pending>>
selVars == <<pick_in, pick_out, qfi_out, check_out, dev_out, debug_out>>

----------------------------------------------------------------------------
(* Bounds *)
MaxResumed == 2     \* resumed callbacks delivered in one run
MaxDevices == 2     \* physical devices the instance enumerates
MaxFamilies == 2    \* queue families of one physical device

----------------------------------------------------------------------------
(* Values *)
None == [some |-> FALSE]
Some(v) == [some |-> TRUE, v |-> v]

NULL == 0    \* Default::default() of a vk handle is the null handle

VALIDATION_LAYER == "VK_LAYER_KHRONOS_validation"
EXT_DEBUG_UTILS_EXTENSION == "VK_EXT_debug_utils"
KHR_GET_PHYSICAL_DEVICE_PROPERTIES2_EXTENSION == "VK_KHR_get_physical_device_properties2"
KHR_PORTABILITY_ENUMERATION_EXTENSION == "VK_KHR_portability_enumeration"
KHR_PORTABILITY_SUBSET_EXTENSION == "VK_KHR_portability_subset"
ENUMERATE_PORTABILITY_KHR == "ENUMERATE_PORTABILITY_KHR"
PORTABILITY_MACOS_VERSION == <<1, 3, 216>>

GRAPHICS == "GRAPHICS"
DISCRETE_GPU == "DISCRETE_GPU"
INTEGRATED_GPU == "INTEGRATED_GPU"

NoSuitableDevice == "Failed to find suitable physical device."
MissingQueueFamilies == "Missing required queue families."
MissingGeometryShader == "Missing geometry shader support."
UnsupportedDeviceType == "Only discrete and integrated GPUs are supported."
ValidationUnsupported == "Validation layer requested but not supported!"

Ok(v) == [ok |-> TRUE, v |-> v, err |-> ""]
Err(e) == [ok |-> FALSE, v |-> NULL, err |-> e]

\* #[derive(Default)] struct AppData
AppDataDefault == [messenger |-> NULL, physical_device |-> NULL, graphics_queue |-> NULL]

\* derive(PartialOrd) on Version: lexicographic on (major, minor, patch)
VersionGE(a, b) ==
    \/ a[1] > b[1]
    \/ a[1] = b[1] /\ a[2] > b[2]
    \/ a[1] = b[1] /\ a[2] = b[2] /\ a[3] >= b[3]

Range(s) == {s[i] : i \in 1..Len(s)}

SeqsUpTo(S, n) == UNION {[1..k -> S] : k \in 0..n}

----------------------------------------------------------------------------
(* Host inputs *)
QueueFlagSets == {{"COMPUTE"}, {GRAPHICS, "COMPUTE"}}
DeviceTypes == {DISCRETE_GPU, INTEGRATED_GPU, "CPU"}
FamilyLists == SeqsUpTo([queue_flags : QueueFlagSets], MaxFamilies)
PhysicalDevices ==
    [device_type : DeviceTypes, geometry_shader : BOOLEAN, queue_families : FamilyLists]

\* the candidates of a selection: one device of any shape, or up to
\* MaxDevices devices with these queue family lists
CandidateFamilyLists ==
    {<<>>, <<[queue_flags |-> {"COMPUTE"}]>>, <<[queue_flags |-> {GRAPHICS, "COMPUTE"}]>>,
     <<[queue_flags |-> {"COMPUTE"}], [queue_flags |-> {GRAPHICS}]>>}
CandidateDevices ==
    [device_type : DeviceTypes, geometry_shader : BOOLEAN,
     queue_families : CandidateFamilyLists]
DeviceLists == [1..1 -> PhysicalDevices] \cup SeqsUpTo(CandidateDevices, MaxDevices)

----------------------------------------------------------------------------
(* QueueFamilyIndices::get *)

\* QueueFlags::contains: every bit of `other` is set in `flags`
contains(flags, other) == other \subseteq flags

RECURSIVE position_last(_, _)
position_last(properties, i) ==
    IF i > Len(properties) THEN None
    ELSE LET rest == position_last(properties, i + 1)
         IN IF rest.some THEN rest
            ELSE IF contains(properties[i].queue_flags, {GRAPHICS}) THEN Some(i - 1)
            ELSE None

\* Iterator::position from (1-based) index i on; the result is 0-based
RECURSIVE position(_, _)
position(properties, i) ==
    IF i > Len(properties) THEN None
    ELSE IF contains(properties[i].queue_flags, {GRAPHICS}) THEN Some(i - 1)
    ELSE position(properties, i + 1)

\* the part of QueueFamilyIndices::get after the native query returned
\* `properties`
QueueFamilyIndices_get(properties) ==
    LET graphics == position(properties, 1)
    IN IF graphics.some THEN Ok([graphics |-> graphics.v])
       ELSE Err(MissingQueueFamilies)

\* get_physical_device_queue_family_properties for a valid handle
queue_family_properties(p_device) == devices[p_device].queue_families

----------------------------------------------------------------------------
(* check_physical_device: result and the native queries it made *)

check_physical_device_features_first(p_device) ==
    LET d == devices[p_device]
    IN IF d.geometry_shader # TRUE
       THEN [res |-> Err(MissingGeometryShader), queried |-> <<"features">>]
       ELSE IF d.device_type # DISCRETE_GPU /\ d.device_type # INTEGRATED_GPU
       THEN [res |-> Err(UnsupportedDeviceType), queried |-> <<"features", "properties">>]
       ELSE LET q == QueueFamilyIndices_get(queue_family_properties(p_device))
            IN [res |-> IF q.ok THEN Ok(NULL) ELSE Err(q.err),
                queried |-> <<"features", "properties", "queue_family_properties">>]

check_physical_device(p_device) ==
    LET d == devices[p_device]
    IN IF d.device_type # DISCRETE_GPU /\ d.device_type # INTEGRATED_GPU
       THEN [res |-> Err(UnsupportedDeviceType), queried |-> <<"properties">>]
       ELSE IF d.geometry_shader # TRUE
       THEN [res |-> Err(MissingGeometryShader), queried |-> <<"properties", "features">>]
       ELSE LET q == QueueFamilyIndices_get(queue_family_properties(p_device))
            IN [res |-> IF q.ok THEN Ok(NULL) ELSE Err(q.err),
                queried |-> <<"properties", "features", "queue_family_properties">>]

----------------------------------------------------------------------------
(* pick_physical_device: the for loop from device i on *)

RECURSIVE pick_loop_no_return(_, _, _, _)
pick_loop_no_return(i, data, evaluated, log) ==
    IF i > Len(devices)
    THEN [res |-> IF data.physical_device \in Range(evaluated)
                  THEN Ok(NULL) ELSE Err(NoSuitableDevice),
          data |-> data, evaluated |-> evaluated, log |-> log]
    ELSE LET c == check_physical_device(i)
         IN IF ~c.res.ok
            THEN pick_loop_no_return(i + 1, data, Append(evaluated, i),
                           Append(log, [level |-> "warn", device |-> i, error |-> c.res.err]))
            ELSE pick_loop_no_return(i + 1, [data EXCEPT !.physical_device = i],
                           Append(evaluated, i),
                           Append(log, [level |-> "info", device |-> i, error |-> ""]))

RECURSIVE pick_loop(_, _, _, _)
pick_loop(i, data, evaluated, log) ==
    IF i > Len(devices)
    THEN [res |-> Err(NoSuitableDevice), data |-> data,
          evaluated |-> evaluated, log |-> log]
    ELSE LET c == check_physical_device(i)
         IN IF ~c.res.ok
            THEN pick_loop(i + 1, data, Append(evaluated, i),
                           Append(log, [level |-> "warn", device |-> i, error |-> c.res.err]))
            ELSE [res |-> Ok(NULL),
                  data |-> [data EXCEPT !.physical_device = i],
                  evaluated |-> Append(evaluated, i),
                  log |-> Append(log, [level |-> "info", device |-> i, error |-> ""])]

pick_physical_device(data, enumerate_ok) ==
    IF ~enumerate_ok
    THEN [res |-> Err("enumerate_physical_devices failed"), data |-> data,
          evaluated |-> <<>>, log |-> <<>>]
    ELSE pick_loop(1, data, <<>>, <<>>)

----------------------------------------------------------------------------
(* Native calls *)

\* one entry of the trace: operation, parent object, argument handle, result
Call(op, on, arg, ret) == [op |-> op, on |-> on, arg |-> arg, ret |-> ret]

\* the queue handle vkGetDeviceQueue returns for (device, family, index)
QueueHandle(device, family, index) == device * 100 + family * 10 + index + 1

\* outcomes of the native calls of one bootstrap that the host decides: a
\* call has an outcome only when every call before it succeeded
AllSucceed ==
    [window_ok |-> TRUE, loader_ok |-> TRUE, entry_ok |-> TRUE,
     layers_ok |-> TRUE, instance_ok |-> TRUE,
     ub_query_crash |-> FALSE, ub_properties |-> <<>>, device_outcome |-> "ok"]
NativeOutcomes ==
    {[AllSucceed EXCEPT !.window_ok = FALSE],
     [AllSucceed EXCEPT !.loader_ok = FALSE],
     [AllSucceed EXCEPT !.entry_ok = FALSE],
     [AllSucceed EXCEPT !.layers_ok = FALSE],
     [AllSucceed EXCEPT !.instance_ok = FALSE],
     [AllSucceed EXCEPT !.ub_query_crash = TRUE]}
    \cup {[AllSucceed EXCEPT !.ub_properties = f, !.device_outcome = o] :
            f \in FamilyLists, o \in {"ok", "err", "crash"}}

----------------------------------------------------------------------------
(* create_instance; `id` is the handle the driver gives a new instance *)

validation_layer_missing_negated ==
    VALIDATION_ENABLED /\ VALIDATION_LAYER \in available_layers

\* the fail-fast test on the host's layers
validation_layer_missing ==
    VALIDATION_ENABLED /\ ~(VALIDATION_LAYER \in available_layers)

instance_layers_always == <<VALIDATION_LAYER>>

\* the layer names of the instance request
instance_layers == IF VALIDATION_ENABLED THEN <<VALIDATION_LAYER>> ELSE <<>>

create_instance(nd, id) ==
    IF ~nd.layers_ok
    THEN [res |-> Err("enumerate_instance_layer_properties failed"),
          calls |-> <<>>, requests |-> <<>>]
    ELSE IF validation_layer_missing
    THEN [res |-> Err(ValidationUnsupported), calls |-> <<>>, requests |-> <<>>]
    ELSE IF target_macos /\ ~entry_version.ok
    THEN [res |-> Err("Entry::version failed"), calls |-> <<>>, requests |-> <<>>]
    ELSE
      LET layers == instance_layers
          ext_window == window_extensions
          ext_debug == IF VALIDATION_ENABLED
                       THEN Append(ext_window, EXT_DEBUG_UTILS_EXTENSION)
                       ELSE ext_window
          portability == target_macos
                           /\ VersionGE(entry_version.v, PORTABILITY_MACOS_VERSION)
          extensions == IF portability
                        THEN ext_debug \o <<KHR_GET_PHYSICAL_DEVICE_PROPERTIES2_EXTENSION,
                                            KHR_PORTABILITY_ENUMERATION_EXTENSION>>
                        ELSE ext_debug
          flags == IF portability THEN {ENUMERATE_PORTABILITY_KHR} ELSE {}
          info == [layers |-> layers, extensions |-> extensions, flags |-> flags,
                   next |-> IF VALIDATION_ENABLED
                            THEN <<"DebugUtilsMessengerCreateInfoEXT">> ELSE <<>>]
      IN IF nd.instance_ok
         THEN [res |-> Ok(id),
               calls |-> <<Call("create_instance", NULL, NULL, id)>>,
               requests |-> <<info>>]
         ELSE [res |-> Err("create_instance failed"),
               calls |-> <<Call("create_instance", NULL, NULL, NULL)>>,
               requests |-> <<info>>]

----------------------------------------------------------------------------
(* create_logical_decice; `id` is the handle the driver gives a new device. *)
(* The physical device handle in _data may be the null handle: the native   *)
(* calls on it are undefined behaviour, modelled as any outcome.            *)

device_extensions_any_version ==
    IF target_macos THEN <<KHR_PORTABILITY_SUBSET_EXTENSION>> ELSE <<>>

\* the extension names of the device request
device_extensions ==
    IF target_macos /\ VersionGE(entry_version.v, PORTABILITY_MACOS_VERSION)
    THEN <<KHR_PORTABILITY_SUBSET_EXTENSION>> ELSE <<>>

device_queue_family_zero(device, indices) == QueueHandle(device, 0, 0)

\* device.get_device_queue(indices.graphics, 0)
device_queue(device, indices) == QueueHandle(device, indices.graphics, 0)

create_logical_decice(instance, data, nd, id) ==
    LET p == data.physical_device
        valid == p \in 1..Len(devices)
        query == Call("get_physical_device_queue_family_properties", instance, p, NULL)
        properties == IF valid THEN queue_family_properties(p) ELSE nd.ub_properties
        indices == QueueFamilyIndices_get(properties)
    IN IF ~valid /\ nd.ub_query_crash
       THEN [crashed |-> TRUE, res |-> Err("crash"), data |-> data,
             calls |-> <<query>>, requests |-> <<>>]
       ELSE IF ~indices.ok
       THEN [crashed |-> FALSE, res |-> Err(indices.err), data |-> data,
             calls |-> <<query>>, requests |-> <<>>]
       ELSE IF target_macos /\ ~entry_version.ok
       THEN [crashed |-> FALSE, res |-> Err("Entry::version failed"), data |-> data,
             calls |-> <<query>>, requests |-> <<>>]
       ELSE
         LET family == indices.v.graphics
             queue_info == [queue_family_index |-> family, queue_priorities |-> <<1>>]
             layers == IF VALIDATION_ENABLED THEN <<VALIDATION_LAYER>> ELSE <<>>
             extensions == device_extensions
             info == [physical_device |-> p, queue_create_infos |-> <<queue_info>>,
                      layers |-> layers, extensions |-> extensions, features |-> {}]
         IN IF ~valid /\ nd.device_outcome = "crash"
            THEN [crashed |-> TRUE, res |-> Err("crash"), data |-> data,
                  calls |-> <<query, Call("create_device", instance, p, NULL)>>,
                  requests |-> <<info>>]
            ELSE IF nd.device_outcome = "err"
            THEN [crashed |-> FALSE, res |-> Err("create_device failed"), data |-> data,
                  calls |-> <<query, Call("create_device", instance, p, NULL)>>,
                  requests |-> <<info>>]
            ELSE [crashed |-> FALSE, res |-> Ok(id),
                  data |-> [data EXCEPT !.graphics_queue = device_queue(id, indices.v)],
                  calls |-> <<query, Call("create_device", instance, p, id),
                              Call("get_device_queue", id, family,
                                   device_queue(id, indices.v))>>,
                  requests |-> <<info>>]

----------------------------------------------------------------------------
(* VulkanApp::create *)
VulkanApp_create(nd, id) ==
    IF ~nd.loader_ok
    THEN [crashed |-> FALSE, res |-> Err("LibloadingLoader::new failed"), calls |-> <<>>,
          instance_result |-> "none", instance_requests |-> <<>>, device_requests |-> <<>>]
    ELSE IF ~nd.entry_ok
    THEN [crashed |-> FALSE, res |-> Err("Entry::new failed"), calls |-> <<>>,
          instance_result |-> "none", instance_requests |-> <<>>, device_requests |-> <<>>]
    ELSE
      LET data == AppDataDefault
          i == create_instance(nd, id)
      IN IF ~i.res.ok
         THEN [crashed |-> FALSE, res |-> Err(i.res.err), calls |-> i.calls,
               instance_result |-> i.res.err,
               instance_requests |-> i.requests, device_requests |-> <<>>]
         ELSE
           LET d == create_logical_decice(i.res.v, data, nd, id)
           IN [crashed |-> d.crashed,
               res |-> IF d.res.ok
                       THEN Ok([instance |-> i.res.v, data |-> d.data, device |-> d.res.v])
                       ELSE Err(d.res.err),
               calls |-> i.calls \o d.calls,
               instance_result |-> "Ok",
               instance_requests |-> i.requests, device_requests |-> d.requests]

----------------------------------------------------------------------------
(* VulkanApp::destroy: the native calls it issues, in order *)

destroy_instance_first(self) ==
    <<Call("destroy_instance", self.instance, self.instance, NULL),
      Call("destroy_device", self.device, self.device, NULL)>>
    \o (IF VALIDATION_ENABLED
        THEN <<Call("destroy_debug_utils_messenger_ext", self.instance, self.data.messenger, NULL)>>
        ELSE <<>>)

destroy(self) ==
    (IF VALIDATION_ENABLED
     THEN <<Call("destroy_debug_utils_messenger_ext", self.instance, self.data.messenger, NULL)>>
     ELSE <<>>)
    \o <<Call("destroy_device", self.device, self.device, NULL),
         Call("destroy_instance", self.instance, self.instance, NULL)>>

----------------------------------------------------------------------------
(* ApplicationHandler for App *)

\* the callbacks event_loop.run_app delivers while the loop is alive; the
\* loop delivers resumed at start, before any window event or about_to_wait
Delivering == loop \in {"running", "exit_requested"}

created_window_dropped(id) == None

\* self.window = Some(event_loop.create_window(window_props).unwrap())
created_window(id) == Some(id)

loop_after_create_ignored(c) ==
    IF c.crashed THEN "crashed" ELSE "running"

\* VulkanApp::create(..).unwrap(): an Err panics, a crash ends the process
loop_after_create(c) ==
    IF c.crashed THEN "crashed"
    ELSE IF c.res.ok THEN "running" ELSE "panicked"

resumed ==
    /\ loop = "running"
    /\ resumes < MaxResumed
    /\ resumes' = resumes + 1
    /\ \E nd \in NativeOutcomes :
         IF ~nd.window_ok
         THEN /\ loop' = "panicked"
              /\ UNCHANGED <<window, app, calls, instance_requests, instance_result,
                             device_requests, create_result, redraw_pending>>
         ELSE LET c == VulkanApp_create(nd, resumes + 1)
              IN /\ window' = created_window(resumes + 1)
                 /\ redraw_pending' = FALSE
                 /\ calls' = calls \o c.calls
                 /\ instance_requests' = instance_requests \o c.instance_requests
                 /\ device_requests' = device_requests \o c.device_requests
                 /\ instance_result' = c.instance_result
                 /\ create_result' = IF c.crashed THEN "crash"
                                     ELSE IF c.res.ok THEN "Ok" ELSE c.res.err
                 /\ app' = IF ~c.crashed /\ c.res.ok THEN Some(c.res.v) ELSE app
                 /\ loop' = loop_after_create(c)
    /\ UNCHANGED <<hostVars, selVars>>

WindowEvents ==
    {[kind |-> "KeyboardInput", logical_key |-> "Escape"],
     [kind |-> "KeyboardInput", logical_key |-> "Enter"],
     [kind |-> "CloseRequested", logical_key |-> ""],
     [kind |-> "RedrawRequested", logical_key |-> ""],
     [kind |-> "Focused", logical_key |-> ""]}

requests_exit_any_key(event) ==
    event.kind = "KeyboardInput" \/ event.kind = "CloseRequested"

\* the match of window_event: does the handler call event_loop.exit()
requests_exit(event) ==
    IF event.kind = "KeyboardInput" THEN event.logical_key = "Escape"
    ELSE event.kind = "CloseRequested"

\* window_event handling `event`
window_event_on(event) ==
    /\ Delivering
    /\ window.some
    /\ event.kind = "RedrawRequested" => redraw_pending
    /\ redraw_pending' = IF event.kind = "RedrawRequested" THEN FALSE
                         ELSE redraw_pending
    /\ loop' = IF requests_exit(event) THEN "exit_requested" ELSE loop
    /\ UNCHANGED <<window, app, resumes, calls, instance_requests, instance_result,
                   device_requests, create_result, hostVars, selVars>>

window_event == \E event \in WindowEvents : window_event_on(event)

about_to_wait ==
    /\ Delivering
    /\ resumes > 0
    /\ IF window.some
       THEN redraw_pending' = TRUE /\ loop' = loop
       ELSE redraw_pending' = redraw_pending /\ loop' = "panicked"
    /\ UNCHANGED <<window, app, resumes, calls, instance_requests, instance_result,
                   device_requests, create_result, hostVars, selVars>>

exiting ==
    /\ loop = "exit_requested"
    /\ loop' = "exited"
    /\ calls' = IF app.some THEN calls \o destroy(app.v) ELSE calls
    /\ UNCHANGED <<window, app, resumes, instance_requests, instance_result,
                   device_requests, create_result, redraw_pending, hostVars, selVars>>

----------------------------------------------------------------------------
(* The application run: fn main *)
HostLayerSets == {{}, {"VK_LAYER_LUNARG_api_dump"},
                  {VALIDATION_LAYER, "VK_LAYER_LUNARG_api_dump"}}
HostVersions == {[ok |-> FALSE, v |-> <<0, 0, 0>>], [ok |-> TRUE, v |-> <<1, 2, 250>>],
                 [ok |-> TRUE, v |-> <<1, 3, 216>>], [ok |-> TRUE, v |-> <<1, 4, 0>>]}
HostWindowExtensions == {<<"VK_KHR_surface", "VK_KHR_xcb_surface">>,
                         <<"VK_KHR_surface", "VK_EXT_metal_surface">>}
HostDeviceLists == {<<>>,
                    <<[device_type |-> "CPU", geometry_shader |-> TRUE,
                       queue_families |-> <<[queue_flags |-> {GRAPHICS, "COMPUTE"}]>>]>>,
                    <<[device_type |-> DISCRETE_GPU, geometry_shader |-> TRUE,
                       queue_families |-> <<[queue_flags |-> {GRAPHICS, "COMPUTE"}]>>]>>}

Init ==
    /\ VALIDATION_ENABLED \in BOOLEAN
    /\ target_macos \in BOOLEAN
    /\ available_layers \in HostLayerSets
    /\ entry_version \in HostVersions
    /\ window_extensions \in HostWindowExtensions
    /\ devices \in HostDeviceLists
    /\ window = None
    /\ app = None
    /\ loop = "running"
    /\ resumes = 0
    /\ calls = <<>>
    /\ instance_requests = <<>>
    /\ instance_result = "none"
    /\ device_requests = <<>>
    /\ create_result = "none"
    /\ redraw_pending = FALSE
    /\ pick_in = AppDataDefault
    /\ pick_out = None
    /\ qfi_out = None
    /\ check_out = None
    /\ dev_out = None
    /\ debug_out = None

Next == resumed \/ window_event \/ about_to_wait \/ exiting

Spec == Init /\ [][Next]_vars

\* run_app delivers exiting once event_loop.exit() was called
SpecLive == Init /\ [][Next]_vars /\ WF_vars(exiting)

----------------------------------------------------------------------------
(* Device selection applied to every host: pick_physical_device and        *)
(* QueueFamilyIndices::get are not called by VulkanApp::create, so they are *)
(* exercised on their own                                                   *)
PriorHandles == {NULL, 1}

InitSelect ==
    /\ VALIDATION_ENABLED = FALSE
    /\ target_macos = FALSE
    /\ available_layers = {}
    /\ entry_version = [ok |-> TRUE, v |-> <<1, 3, 216>>]
    /\ window_extensions = <<>>
    /\ devices \in DeviceLists
    /\ window = None
    /\ app = None
    /\ loop = "running"
    /\ resumes = 0
    /\ calls = <<>>
    /\ instance_requests = <<>>
    /\ instance_result = "none"
    /\ device_requests = <<>>
    /\ create_result = "none"
    /\ redraw_pending = FALSE
    /\ pick_in \in {[AppDataDefault EXCEPT !.physical_device = h] : h \in PriorHandles}
    /\ pick_out = None
    /\ qfi_out = None
    /\ check_out = None
    /\ dev_out = None
    /\ debug_out = None

\* one function is applied to the chosen input in a run
NotApplied ==
    pick_out = None /\ qfi_out = None /\ check_out = None /\ dev_out = None

PickPhysicalDevice ==
    /\ NotApplied
    /\ \E enumerate_ok \in BOOLEAN :
         pick_out' = Some(pick_physical_device(pick_in, enumerate_ok))
    /\ UNCHANGED <<hostVars, appVars, pick_in, qfi_out, check_out, dev_out, debug_out>>

QueueFamilyIndicesGet ==
    /\ NotApplied
    /\ \E p_device \in 1..Len(devices) :
         qfi_out' = Some([p_device |-> p_device,
                          res |-> QueueFamilyIndices_get(queue_family_properties(p_device))])
    /\ UNCHANGED <<hostVars, appVars, pick_in, pick_out, check_out, dev_out, debug_out>>

CheckPhysicalDevice ==
    /\ NotApplied
    /\ \E p_device \in 1..Len(devices) :
         check_out' = Some([p_device |-> p_device,
                            out |-> check_physical_device(p_device)])
    /\ UNCHANGED <<hostVars, appVars, pick_in, pick_out, qfi_out, dev_out, debug_out>>

NextSelect == PickPhysicalDevice \/ QueueFamilyIndicesGet \/ CheckPhysicalDevice

SpecSelect == InitSelect /\ [][NextSelect]_vars

----------------------------------------------------------------------------
(* create_logical_decice applied to an AppData whose physical device is the *)
(* null handle or the host's device, on instance 1, for every build         *)
HostDevices == {<<>>} \cup [1..1 -> PhysicalDevices]

InitDevice ==
    /\ VALIDATION_ENABLED \in BOOLEAN
    /\ target_macos \in BOOLEAN
    /\ available_layers = {VALIDATION_LAYER}
    /\ entry_version \in HostVersions
    /\ window_extensions = <<>>
    /\ devices \in HostDevices
    /\ window = None
    /\ app = None
    /\ loop = "running"
    /\ resumes = 0
    /\ calls = <<>>
    /\ instance_requests = <<>>
    /\ instance_result = "none"
    /\ device_requests = <<>>
    /\ create_result = "none"
    /\ redraw_pending = FALSE
    /\ pick_in = AppDataDefault
    /\ pick_out = None
    /\ qfi_out = None
    /\ check_out = None
    /\ dev_out = None
    /\ debug_out = None

CreateLogicalDevice ==
    /\ NotApplied
    /\ \E p_device \in 0..Len(devices), nd \in NativeOutcomes :
         LET data == [AppDataDefault EXCEPT !.physical_device = p_device]
         IN dev_out' = Some([data |-> data,
                             returned |-> IF p_device = NULL THEN nd.ub_properties
                                          ELSE queue_family_properties(p_device),
                             out |-> create_logical_decice(1, data, nd, 1)])
    /\ UNCHANGED <<hostVars, appVars, pick_in, pick_out, qfi_out, check_out, debug_out>>

NextDevice == CreateLogicalDevice

SpecDevice == InitDevice /\ [][NextDevice]_vars

----------------------------------------------------------------------------
(* debug_callback *)

\* vk::DebugUtilsMessageSeverityFlagsEXT: the bit of each flag; the flags
\* type orders its values by their bits
SeverityBit ==
    [s \in {"VERBOSE", "INFO", "WARNING", "ERROR"} |->
       IF s = "VERBOSE" THEN 1 ELSE IF s = "INFO" THEN 16
       ELSE IF s = "WARNING" THEN 256 ELSE 4096]

RECURSIVE bits(_)
bits(flags) ==
    IF flags = {} THEN 0
    ELSE LET f == CHOOSE x \in flags : TRUE
         IN SeverityBit[f] + bits(flags \ {f})

VK_FALSE == 0

debug_callback_info_first(severity, type_, message) ==
    LET level == IF bits(severity) >= SeverityBit["ERROR"] THEN "error"
                 ELSE IF bits(severity) >= SeverityBit["INFO"] THEN "info"
                 ELSE IF bits(severity) >= SeverityBit["WARNING"] THEN "warn"
                 ELSE "trace"
    IN [ret |-> VK_FALSE, lines |-> <<[level |-> level, text |-> <<type_, message>>]>>]

\* the log lines emitted and the value returned to the driver
debug_callback(severity, type_, message) ==
    LET level == IF bits(severity) >= SeverityBit["ERROR"] THEN "error"
                 ELSE IF bits(severity) >= SeverityBit["WARNING"] THEN "warn"
                 ELSE IF bits(severity) >= SeverityBit["INFO"] THEN "info"
                 ELSE "trace"
    IN [ret |-> VK_FALSE, lines |-> <<[level |-> level, text |-> <<type_, message>>]>>]

Severities == SUBSET {"VERBOSE", "INFO", "WARNING", "ERROR"}
MessageTypes == SUBSET {"GENERAL", "VALIDATION", "PERFORMANCE"}
Messages == {"", "vkCreateDevice: invalid physicalDevice"}

InitCallback ==
    /\ VALIDATION_ENABLED = TRUE
    /\ target_macos = FALSE
    /\ available_layers = {VALIDATION_LAYER}
    /\ entry_version = [ok |-> TRUE, v |-> <<1, 3, 216>>]
    /\ window_extensions = <<>>
    /\ devices = <<>>
    /\ window = None
    /\ app = None
    /\ loop = "running"
    /\ resumes = 0
    /\ calls = <<>>
    /\ instance_requests = <<>>
    /\ instance_result = "none"
    /\ device_requests = <<>>
    /\ create_result = "none"
    /\ redraw_pending = FALSE
    /\ pick_in = AppDataDefault
    /\ pick_out = None
    /\ qfi_out = None
    /\ check_out = None
    /\ dev_out = None
    /\ debug_out = None

\* the driver invokes the callback, any number of times
DebugCallback ==
    /\ \E severity \in Severities, type_ \in MessageTypes, message \in Messages :
         debug_out' = Some([severity |-> severity, type_ |-> type_, message |-> message,
                            out |-> debug_callback(severity, type_, message)])
    /\ UNCHANGED <<hostVars, appVars, pick_in, pick_out, qfi_out, check_out, dev_out>>

NextCallback == DebugCallback

SpecCallback == InitCallback /\ [][NextCallback]_vars

----------------------------------------------------------------------------
(* Properties *)

Min(S) == CHOOSE m \in S : \A n \in S : m <= n

DestroyOps == {"destroy_debug_utils_messenger_ext", "destroy_device", "destroy_instance"}

\* position of a destroy call in the order messenger, device, instance
DestroyRank(c) ==
    IF c.op = "destroy_debug_utils_messenger_ext" THEN 1
    ELSE IF c.op = "destroy_device" THEN 2 ELSE 3

\* the instance a destroy call belongs to
InstanceOf(c) ==
    IF c.op = "destroy_device"
    THEN LET made == {k \in 1..Len(calls) :
                        calls[k].op = "create_device" /\ calls[k].ret = c.arg}
         IN IF made = {} THEN NULL ELSE calls[Min(made)].on
    ELSE c.on

CreatedInstances ==
    {calls[k].ret : k \in {n \in 1..Len(calls) :
                             calls[n].op = "create_instance" /\ calls[n].ret # NULL}}
DestroyedInstances ==
    {calls[k].arg : k \in {n \in 1..Len(calls) : calls[n].op = "destroy_instance"}}

\* C1: the destroy calls of one context are issued in the order debug
\* messenger (if any), logical device, instance: nothing of a context is
\* destroyed after its instance, the device is destroyed before the instance,
\* and the messenger before the device.
C1_DestroyOrder ==
    /\ \A i, j \in 1..Len(calls) :
         (/\ i < j
          /\ calls[i].op \in DestroyOps
          /\ calls[j].op \in DestroyOps
          /\ InstanceOf(calls[i]) = InstanceOf(calls[j]))
         => DestroyRank(calls[i]) < DestroyRank(calls[j])
    /\ \A j \in 1..Len(calls) :
         calls[j].op = "destroy_instance"
         => \E i \in 1..(j - 1) :
              calls[i].op = "destroy_device" /\ InstanceOf(calls[i]) = calls[j].arg

C1_Witness ==
    /\ VALIDATION_ENABLED
    /\ \E i, j, k \in 1..Len(calls) :
         /\ i < j /\ j < k
         /\ calls[i].op = "destroy_debug_utils_messenger_ext"
         /\ calls[j].op = "destroy_device"
         /\ calls[k].op = "destroy_instance"

\* C2 (as claimed): every physical device handle handed to logical device
\* creation is a handle of an enumerated device that was selected after it
\* passed check_physical_device, the selection having run after instance
\* creation.
C2_DeviceFromSelector ==
    \A i \in 1..Len(calls) :
      calls[i].op \in {"create_device", "get_physical_device_queue_family_properties"}
      => /\ calls[i].arg \in 1..Len(devices)
         /\ check_physical_device(calls[i].arg).res.ok

\* C3: after enumeration succeeded, pick_physical_device stores the first
\* device that passes check_physical_device and returns Ok, evaluating no
\* device after it; with no passing device it returns the "no suitable
\* physical device" error and leaves the stored handle as it was.
C3_FirstPassingDevice ==
    (pick_out.some /\ pick_out.v.res.err # "enumerate_physical_devices failed")
    => LET passing == {i \in 1..Len(devices) : check_physical_device(i).res.ok}
           out == pick_out.v
       IN IF passing = {}
          THEN /\ ~out.res.ok
               /\ out.res.err = NoSuitableDevice
               /\ out.data = pick_in
          ELSE /\ out.res.ok
               /\ out.data.physical_device = Min(passing)
               /\ out.data = [pick_in EXCEPT !.physical_device = Min(passing)]
               /\ out.evaluated = [k \in 1..Min(passing) |-> k]

C3_Witness ==
    /\ pick_out.some
    /\ pick_out.v.res.ok
    /\ Len(devices) = 2
    /\ ~check_physical_device(1).res.ok
    /\ pick_out.v.data.physical_device = 2

\* C4: QueueFamilyIndices::get returns the lowest (0-based) index of a queue
\* family whose flags include GRAPHICS, and the missing-queue-family error
\* exactly when no family includes GRAPHICS.
C4_LowestGraphicsFamily ==
    qfi_out.some
    => LET properties == devices[qfi_out.v.p_device].queue_families
           graphics == {i \in 1..Len(properties) : GRAPHICS \in properties[i].queue_flags}
           res == qfi_out.v.res
       IN IF graphics = {}
          THEN ~res.ok /\ res.err = MissingQueueFamilies
          ELSE res.ok /\ res.v.graphics = Min(graphics) - 1

C4_Witness ==
    /\ qfi_out.some
    /\ qfi_out.v.res.ok
    /\ LET properties == devices[qfi_out.v.p_device].queue_families
       IN /\ Len(properties) = 2
          /\ GRAPHICS \in properties[1].queue_flags
          /\ GRAPHICS \in properties[2].queue_flags
          /\ qfi_out.v.res.v.graphics = 0

\* C5 (as claimed): when no enumerated device passes the suitability checks
\* (or none is enumerated), a bootstrap that got its instance fails with the
\* "no suitable physical device" error and creates no logical device.
C5_NoSuitableDeviceFails ==
    (/\ instance_result = "Ok"
     /\ \A i \in 1..Len(devices) : ~check_physical_device(i).res.ok)
    => /\ create_result = NoSuitableDevice
       /\ \A k \in 1..Len(calls) : calls[k].op # "create_device"

\* C6 (as claimed): when VulkanApp::create has returned an error, every
\* instance created so far has been destroyed.
C6_FailureReleasesInstance ==
    create_result \notin {"none", "Ok", "crash"}
    => CreatedInstances \subseteq DestroyedInstances

\* C7: in a diagnostics build on a host without the validation layer,
\* create_instance never issues the instance-creation call, returns an error
\* whenever it runs, and no instance handle and no context exist.
C7_MissingLayerFailsFast ==
    (VALIDATION_ENABLED /\ VALIDATION_LAYER \notin available_layers)
    => /\ \A k \in 1..Len(calls) : calls[k].op # "create_instance"
       /\ instance_requests = <<>>
       /\ instance_result \in {"none", ValidationUnsupported,
                               "enumerate_instance_layer_properties failed"}
       /\ CreatedInstances = {}
       /\ ~app.some

C7_Witness ==
    /\ VALIDATION_ENABLED
    /\ VALIDATION_LAYER \notin available_layers
    /\ instance_result = ValidationUnsupported
    /\ create_result = ValidationUnsupported

\* C8: every instance-creation request holds the validation layer name, the
\* debug-utils extension name and the chained messenger descriptor exactly
\* when diagnostics mode is enabled, and the windowing-required extensions in
\* any case; without diagnostics no messenger is created.
C8_DiagnosticsNamesIffEnabled ==
    /\ \A k \in 1..Len(instance_requests) :
         LET r == instance_requests[k]
         IN /\ (VALIDATION_LAYER \in Range(r.layers)) <=> VALIDATION_ENABLED
            /\ (EXT_DEBUG_UTILS_EXTENSION \in Range(r.extensions)) <=> VALIDATION_ENABLED
            /\ ("DebugUtilsMessengerCreateInfoEXT" \in Range(r.next)) <=> VALIDATION_ENABLED
            /\ Range(window_extensions) \subseteq Range(r.extensions)
    /\ ~VALIDATION_ENABLED
       => /\ \A k \in 1..Len(calls) : calls[k].op # "create_debug_utils_messenger_ext"
          /\ app.some => app.v.data.messenger = NULL

C8_Witness ==
    /\ ~VALIDATION_ENABLED
    /\ Len(instance_requests) > 0
    /\ instance_requests[1].layers = <<>>
    /\ instance_requests[1].next = <<>>
    /\ app.some

\* C9 (as claimed): a context held after a successful bootstrap has a
\* non-null debug messenger handle exactly when diagnostics mode is enabled.
C9_MessengerIffDiagnostics ==
    app.some => ((app.v.data.messenger # NULL) <=> VALIDATION_ENABLED)

\* C10 (as claimed): at most one instance is ever created in a run, and never
\* two are alive (created and not destroyed) at once.
C10_SingleContext ==
    /\ Cardinality(CreatedInstances) <= 1
    /\ Cardinality(CreatedInstances \ DestroyedInstances) <= 1

\* C11 (as claimed): once the application has exited, every instance that
\* was created has been destroyed exactly once.
C11_DestroyedExactlyOnce ==
    loop = "exited"
    => \A n \in CreatedInstances :
         Cardinality({k \in 1..Len(calls) :
                        calls[k].op = "destroy_instance" /\ calls[k].arg = n}) = 1

\* C12: check_physical_device passes exactly when the device is a discrete
\* or integrated GPU, supports geometry shaders and has a queue family with
\* GRAPHICS; a failure carries the reason of the first failing check in the
\* order type, geometry shader, queue family, and no later check is queried.
C12_SuitabilityChecks ==
    check_out.some
    => LET d == devices[check_out.v.p_device]
           out == check_out.v.out
           type_ok == d.device_type \in {DISCRETE_GPU, INTEGRATED_GPU}
           geometry_ok == d.geometry_shader
           queue_ok == \E i \in 1..Len(d.queue_families) :
                         GRAPHICS \in d.queue_families[i].queue_flags
       IN /\ out.res.ok <=> (type_ok /\ geometry_ok /\ queue_ok)
          /\ ~type_ok
             => out.res.err = UnsupportedDeviceType /\ out.queried = <<"properties">>
          /\ (type_ok /\ ~geometry_ok)
             => /\ out.res.err = MissingGeometryShader
                /\ out.queried = <<"properties", "features">>
          /\ (type_ok /\ geometry_ok /\ ~queue_ok)
             => out.res.err = MissingQueueFamilies

C12_Witness ==
    /\ check_out.some
    /\ devices[check_out.v.p_device].device_type = "CPU"
    /\ ~devices[check_out.v.p_device].geometry_shader
    /\ devices[check_out.v.p_device].queue_families = <<>>
    /\ check_out.v.out.res.err = UnsupportedDeviceType

\* C13: when create_logical_decice returns, its device request (if any) has
\* exactly one queue-creation entry, for the lowest GRAPHICS family of the
\* queue families queried for the context's physical device; on success the
\* stored graphics queue is the one retrieved from the new device for that
\* family and queue index 0; on failure the error is returned and the
\* AppData is left as it was, with no queue retrieved.
C13_QueueOfLocatedFamily ==
    (dev_out.some /\ ~dev_out.v.out.crashed)
    => LET out == dev_out.v.out
           p == dev_out.v.data.physical_device
           properties == dev_out.v.returned
           graphics == {i \in 1..Len(properties) : GRAPHICS \in properties[i].queue_flags}
           retrieved == {k \in 1..Len(out.calls) : out.calls[k].op = "get_device_queue"}
       IN /\ p # NULL => properties = devices[p].queue_families
          /\ \A k \in 1..Len(out.requests) :
               /\ graphics # {}
               /\ out.requests[k].physical_device = p
               /\ Len(out.requests[k].queue_create_infos) = 1
               /\ out.requests[k].queue_create_infos[1].queue_family_index
                    = Min(graphics) - 1
          /\ graphics = {} => ~out.res.ok /\ out.res.err = MissingQueueFamilies
          /\ out.res.ok
             => /\ Len(out.requests) = 1
                /\ out.data.graphics_queue = QueueHandle(out.res.v, Min(graphics) - 1, 0)
                /\ out.data = [dev_out.v.data EXCEPT
                                 !.graphics_queue = QueueHandle(out.res.v, Min(graphics) - 1, 0)]
                /\ Cardinality(retrieved) = 1
                /\ \A k \in retrieved :
                     /\ out.calls[k].on = out.res.v
                     /\ out.calls[k].arg = Min(graphics) - 1
                     /\ out.calls[k].ret = out.data.graphics_queue
          /\ ~out.res.ok
             => /\ out.data = dev_out.v.data
                /\ out.data.graphics_queue = NULL
                /\ retrieved = {}
                /\ out.res.err # ""

C13_Witness ==
    /\ dev_out.some
    /\ dev_out.v.data.physical_device = 1
    /\ dev_out.v.out.res.ok
    /\ Len(dev_out.v.returned) = 2
    /\ dev_out.v.out.requests[1].queue_create_infos[1].queue_family_index = 1
    /\ dev_out.v.out.data.graphics_queue = QueueHandle(1, 1, 0)

\* C14 (as claimed): every debug-messenger destroy call is for a messenger
\* handle that was created before, and not for the null handle.
C14_DestroysOnlyCreatedMessenger ==
    \A k \in 1..Len(calls) :
      calls[k].op = "destroy_debug_utils_messenger_ext"
      => /\ calls[k].arg # NULL
         /\ \E j \in 1..(k - 1) :
              /\ calls[j].op = "create_debug_utils_messenger_ext"
              /\ calls[j].ret = calls[k].arg

\* native calls of the bootstrap numbered n that need its instance or device
LaterSteps(n) ==
    {k \in 1..Len(calls) :
       /\ calls[k].op \in {"get_physical_device_queue_family_properties",
                           "create_device", "get_device_queue"}
       /\ calls[k].on = n}

\* C15: after VulkanApp::create returned an error the process has panicked,
\* so no callback follows; App.app was not assigned (it holds no object of
\* the failed bootstrap, and what it holds is a completely built context);
\* and no step after the failing one ran: no instance-creation call after a
\* failure before it, no device step after a failed instance creation, no
\* device-creation call after a failed queue family lookup and no queue
\* retrieval after any failure.
C15_FailureStopsBootstrap ==
    create_result \notin {"none", "Ok", "crash"}
    => /\ loop = "panicked"
       /\ app.some
          => /\ app.v.instance # resumes /\ app.v.device # resumes
             /\ app.v.instance \in CreatedInstances
             /\ app.v.data.graphics_queue # NULL
       /\ resumes \notin CreatedInstances => LaterSteps(resumes) = {}
       /\ instance_result \notin {"Ok", "create_instance failed"}
          => Cardinality({k \in 1..Len(calls) : calls[k].op = "create_instance"})
               = resumes - 1
       /\ instance_result = "create_instance failed"
          => calls[Len(calls)].op = "create_instance" /\ calls[Len(calls)].ret = NULL
       /\ create_result = MissingQueueFamilies
          => \A k \in LaterSteps(resumes) :
               calls[k].op = "get_physical_device_queue_family_properties"
       /\ \A k \in LaterSteps(resumes) :
            /\ calls[k].op # "get_device_queue"
            /\ calls[k].op = "create_device" => calls[k].ret = NULL

C15_Witness ==
    /\ create_result = "create_device failed"
    /\ instance_result = "Ok"
    /\ loop = "panicked"
    /\ ~app.some
    /\ LaterSteps(resumes) # {}

\* C16: debug_callback emits exactly one log line, at level error when the
\* severity is at least ERROR, else warning when at least WARNING, else info
\* when at least INFO, else trace (so the level is that of the highest
\* severity flag set), and returns VK_FALSE.
C16_SeverityToLevel ==
    debug_out.some
    => LET severity == debug_out.v.severity
           value == bits(severity)
           out == debug_out.v.out
       IN /\ out.ret = 0
          /\ Len(out.lines) = 1
          /\ out.lines[1].text = <<debug_out.v.type_, debug_out.v.message>>
          /\ value >= 4096 => out.lines[1].level = "error"
          /\ (value < 4096 /\ value >= 256) => out.lines[1].level = "warn"
          /\ (value < 256 /\ value >= 16) => out.lines[1].level = "info"
          /\ value < 16 => out.lines[1].level = "trace"
          /\ out.lines[1].level = "error" <=> "ERROR" \in severity
          /\ out.lines[1].level = "warn" <=> ("WARNING" \in severity /\ "ERROR" \notin severity)

C16_Witness ==
    /\ debug_out.some
    /\ debug_out.v.severity = {"WARNING", "INFO", "VERBOSE"}
    /\ debug_out.v.out.lines[1].level = "warn"

\* the loader's version as one number (patch numbers stay below 1000 here)
VersionNumber(v) == v[1] * 1000000 + v[2] * 1000 + v[3]

PortabilityRequired ==
    /\ target_macos
    /\ entry_version.ok
    /\ VersionNumber(entry_version.v) >= VersionNumber(<<1, 3, 216>>)

\* C17: every instance request carries the two portability extensions and
\* the ENUMERATE_PORTABILITY flag, and every device request the
\* portability-subset extension, exactly when the target is macOS and the
\* loader's version is at least 1.3.216; otherwise the flags are empty and no
\* portability extension is requested at either site.
C17_PortabilityAtBothSites ==
    /\ \A k \in 1..Len(instance_requests) :
         LET r == instance_requests[k]
         IN /\ (KHR_GET_PHYSICAL_DEVICE_PROPERTIES2_EXTENSION \in Range(r.extensions))
                 <=> PortabilityRequired
            /\ (KHR_PORTABILITY_ENUMERATION_EXTENSION \in Range(r.extensions))
                 <=> PortabilityRequired
            /\ r.flags = IF PortabilityRequired THEN {ENUMERATE_PORTABILITY_KHR} ELSE {}
            /\ KHR_PORTABILITY_SUBSET_EXTENSION \notin Range(r.extensions)
    /\ \A k \in 1..Len(device_requests) :
         LET d == device_requests[k]
         IN /\ (KHR_PORTABILITY_SUBSET_EXTENSION \in Range(d.extensions))
                 <=> PortabilityRequired
            /\ Range(d.extensions) \subseteq {KHR_PORTABILITY_SUBSET_EXTENSION}

C17_Witness ==
    /\ target_macos
    /\ entry_version.v = <<1, 4, 0>>
    /\ Len(instance_requests) > 0 /\ Len(device_requests) > 0
    /\ ENUMERATE_PORTABILITY_KHR \in instance_requests[1].flags
    /\ device_requests[1].extensions = <<KHR_PORTABILITY_SUBSET_EXTENSION>>

ContextTornDown ==
    app.some
    => /\ \E k \in 1..Len(calls) :
            calls[k].op = "destroy_device" /\ calls[k].arg = app.v.device
       /\ app.v.instance \in DestroyedInstances

\* C19: handling a window event requests exit exactly when the event is
\* CloseRequested or a keyboard input with logical key Escape; any other
\* event leaves the exit state as it was; no window event changes the window,
\* the context or the native objects; and once exit is requested, exiting
\* eventually runs and the context, if any, is torn down.
C19_ExitOnCloseOrEscape ==
    /\ [][\A event \in WindowEvents :
            window_event_on(event)
            => /\ IF \/ event.kind = "CloseRequested"
                     \/ event.kind = "KeyboardInput" /\ event.logical_key = "Escape"
                  THEN loop' = "exit_requested"
                  ELSE loop' = loop
               /\ window' = window /\ app' = app /\ calls' = calls]_vars
    /\ (loop = "exit_requested") ~> (loop = "exited" /\ ContextTornDown)

C19_Witness ==
    /\ loop = "exited"
    /\ app.some
    /\ app.v.instance \in DestroyedInstances

====
